---- MODULE Spec2Model ----
(***************************************************************************)
(* Badges pipeline: badges_cleaning.py (load -> clean -> export ->         *)
(* validate) and badges_analysis.py (load -> profile).                     *)
(*                                                                         *)
(* A table is a sequence of rows; a cell is a tagged value, so that the    *)
(* engine's structural null is a value of every column type.  Text is a    *)
(* sequence of one-character strings, so trim and lower are computed.      *)
(***************************************************************************)
EXTENDS Integers, Sequences, FiniteSets, TLC

VARIABLES script, pc, session, acquired, error, input, fs, df, df_cleaned,
          initial_count, final_count, name_anomalies, parquet_count,
          outcome, report, run, first_run

vars == <<script, pc, session, acquired, error, input, fs, df, df_cleaned,
          initial_count, final_count, name_anomalies, parquet_count,
          outcome, report, run, first_run>>

(* ---------------------------- bounds ---------------------------------- *)

\* Longest input table, in rows.
MaxRows == 2

\* Number of times the cleaning script is run on the same input and path.
MaxRuns == 2

(* ---------------------------- cell values ------------------------------ *)

Null == [null |-> TRUE]
Long(n) == [null |-> FALSE, long |-> n]
Str(s) == [null |-> FALSE, str |-> s]
Bool(b) == [null |-> FALSE, bool |-> b]
Timestamp(y, m, d) == [null |-> FALSE, year |-> y, month |-> m, day |-> d]

IsLong(v) == DOMAIN v = {"null", "long"}
IsStr(v) == DOMAIN v = {"null", "str"}
IsBool(v) == DOMAIN v = {"null", "bool"}
IsTimestamp(v) == DOMAIN v = {"null", "year", "month", "day"}

(* ---------------------------- text functions --------------------------- *)

\* lower() on one character (the letters the inputs below use).
LowerChar(c) ==
    CASE c = "N" -> "n"
      [] c = "A" -> "a"
      [] OTHER -> c

RECURSIVE TrimLeft(_)
TrimLeft(s) == IF s # <<>> /\ Head(s) = " " THEN TrimLeft(Tail(s)) ELSE s

RECURSIVE TrimRight(_)
TrimRight(s) ==
    IF s # <<>> /\ s[Len(s)] = " " THEN TrimRight(SubSeq(s, 1, Len(s) - 1)) ELSE s

\* trim(col): strips the space character from both ends; null stays null.
trim(v) == IF v = Null THEN Null ELSE Str(TrimRight(TrimLeft(v.str)))

\* lower(col): null stays null.
lower(v) == IF v = Null THEN Null ELSE Str([i \in 1..Len(v.str) |-> LowerChar(v.str[i])])

(* ---------------------------- three-valued logic ----------------------- *)

\* col.isin(values): null when the cell is null.
isin(v, values) == IF v = Null THEN Null ELSE Bool(v \in values)

\* ~col
Not3(b) == IF b = Null THEN Null ELSE Bool(~b.bool)

\* df.filter(cond): keeps the rows whose condition is true (not false, not null).
\* cond[i] is the condition's value on row i.
RECURSIVE filter_from(_, _, _)
filter_from(rows, cond, i) ==
    IF i > Len(rows) THEN <<>>
    ELSE (IF cond[i] = Bool(TRUE) THEN <<rows[i]>> ELSE <<>>) \o filter_from(rows, cond, i + 1)

filter(rows, cond) == filter_from(rows, cond, 1)

\* df.count()
count(rows) == Len(rows)

(* ---------------------------- casts ------------------------------------ *)

\* cast(LongType): a long stays itself, null stays null, anything else
\* cannot be coerced and becomes null.
CastLong(v) == IF IsLong(v) THEN v ELSE Null

\* cast(IntegerType) of a long column: a value that fits 32 bits is kept
\* as it is (the values modelled all fit), anything that is no number
\* becomes null.
CastInteger(v) == IF IsLong(v) THEN v ELSE Null

\* cast(BooleanType)
CastBoolean(v) == IF IsBool(v) THEN v ELSE Null

\* cast(TimestampType): a timestamp stays itself; text that is no
\* timestamp fails the cast and becomes null.
CastTimestamp(v) == IF IsTimestamp(v) THEN v ELSE Null

\* year(col): null for a null timestamp.
year(v) == IF v = Null THEN Null ELSE Long(v.year)

(* ---------------------------- input tables ----------------------------- *)

RawColumns == {"_Id", "_UserId", "_Name", "_Date", "_Class", "_TagBased"}

RawRow(id, user_id, name, date, class, tag_based) ==
    [c \in RawColumns |->
        CASE c = "_Id" -> id
          [] c = "_UserId" -> user_id
          [] c = "_Name" -> name
          [] c = "_Date" -> date
          [] c = "_Class" -> class
          [] c = "_TagBased" -> tag_based]

\* "  Nice Answer  "
NiceAnswer ==
    Str(<<" ", " ", "N", "i", "c", "e", " ", "A", "n", "s", "w", "e", "r", " ", " ">>)

\* " N/A ": a sentinel once trimmed and lowercased
NotAvailable == Str(<<" ", "N", "/", "A", " ">>)

NameVals == {NiceAnswer, NotAvailable, Null}

\* A parseable date is held by the timestamp it parses to; <<"x">> is text
\* that is no timestamp.
DateVals == {Timestamp(2008, 9, 15), Timestamp(2009, 1, 2), Str(<<"x">>), Null}

ClassVals == {Long(1), Long(99), Null}

\* The rows a load can yield. Id, UserId and TagBased take one value each:
\* the system user's badge.
RawRows ==
    {RawRow(Long(1), Long(-1), n, d, c, Bool(FALSE)) :
        n \in NameVals, d \in DateVals, c \in ClassVals}

RECURSIVE TablesUpTo(_)
TablesUpTo(n) ==
    IF n = 0 THEN {<<>>}
    ELSE LET shorter == TablesUpTo(n - 1)
         IN  shorter \cup {Append(t, r) : t \in {u \in shorter : Len(u) = n - 1}, r \in RawRows}

\* What is at input_path: no file, or a file holding a table.
Inputs ==
    {[exists |-> FALSE, rows |-> <<>>]} \cup
    {[exists |-> TRUE, rows |-> t] : t \in TablesUpTo(MaxRows)}

(* ---------------------------- badges_cleaning.py ----------------------- *)

anomaly_patterns ==
    {Str(<<"n", "a", "n">>), Str(<<"n", "u", "l", "l">>), Str(<<"n", "/", "a">>),
     Str(<<"n", "a">>), Str(<<"n", "o", "n", "e">>), Str(<<"-">>), Str(<<>>)}

\* validate_string_anomalies(df, column_name)
validate_string_anomalies(d, column_name) ==
    count(filter(d, [i \in 1..Len(d) |->
                        isin(lower(trim(d[i][column_name])), anomaly_patterns)]))

\* A normalization that lowercases without trimming.
normalize_name_untrimmed(v) == lower(v)

\* lower(trim(col("_Name")))
normalize_name(v) == lower(trim(v))

\* A cast that nulls every class outside {1,2,3}.
cast_badge_class_in_domain(v) ==
    IF CastInteger(v) \in {Long(1), Long(2), Long(3)} THEN CastInteger(v) ELSE Null

\* col("_Class").cast(IntegerType())
cast_badge_class(v) == CastInteger(v)

CleanColumns == {"id", "user_id", "name", "date", "badge_class", "tag_based"}

\* df.select(...): one output row per input row
select_clean(r) ==
    [c \in CleanColumns |->
        CASE c = "id" -> CastLong(r["_Id"])
          [] c = "user_id" -> CastLong(r["_UserId"])
          [] c = "name" -> normalize_name(r["_Name"])
          [] c = "date" -> CastTimestamp(r["_Date"])
          [] c = "badge_class" -> cast_badge_class(r["_Class"])
          [] c = "tag_based" -> CastBoolean(r["_TagBased"])]

\* A derivation that takes the month for the year.
badge_year_from_month(date) == IF date = Null THEN Null ELSE Long(date.month)

\* year(col("date"))
badge_year_of(date) == year(date)

\* withColumn(name, value)
withColumn(r, name, value) ==
    [c \in DOMAIN r \cup {name} |-> IF c = name THEN value ELSE r[c]]

\* A cleaning that removes the rows the anomaly scan flags.
clean_dropping_anomalies(d) ==
    LET kept == SelectSeq(d, LAMBDA r :
                    isin(lower(trim(r["_Name"])), anomaly_patterns) # Bool(TRUE))
    IN  [i \in 1..Len(kept) |->
            withColumn(select_clean(kept[i]), "badge_year",
                       badge_year_of(select_clean(kept[i])["date"]))]

\* The table clean_badges_data returns: the projection of every input row,
\* with badge_year added. The anomaly scan only counts.
clean_badges_data(d) ==
    [i \in 1..Len(d) |->
        withColumn(select_clean(d[i]), "badge_year",
                   badge_year_of(select_clean(d[i])["date"]))]

(* ---------------------------- the output path -------------------------- *)

\* A partition subdirectory: badge_year=<value>, or the engine's default
\* partition directory for rows whose key is null.
PartitionDir(v) ==
    IF v = Null THEN [default |-> TRUE, value |-> 0]
    ELSE [default |-> FALSE, value |-> v.long]

HiveDefaultPartition == PartitionDir(Null)

\* The key a reader gives the rows of a partition subdirectory.
PartitionKey(dir) == IF dir.default THEN Null ELSE Long(dir.value)

dropColumn(r, name) == [c \in DOMAIN r \ {name} |-> r[c]]

\* A partitioning that writes no subdirectory for the rows with a null key.
partition_dropping_null_keys(d, partition_by) ==
    [dir \in {PartitionDir(d[i][partition_by]) : i \in 1..Len(d)} \ {HiveDefaultPartition} |->
        LET mine == SelectSeq(d, LAMBDA r : PartitionDir(r[partition_by]) = dir)
        IN  [i \in 1..Len(mine) |-> dropColumn(mine[i], partition_by)]]

\* The file set partitionBy(partition_by) writes for a table: one
\* subdirectory per distinct key, each holding its rows without the key.
partition_files(d, partition_by) ==
    [dir \in {PartitionDir(d[i][partition_by]) : i \in 1..Len(d)} |->
        LET mine == SelectSeq(d, LAMBDA r : PartitionDir(r[partition_by]) = dir)
        IN  [i \in 1..Len(mine) |-> dropColumn(mine[i], partition_by)]]

\* The mode that adds to what is at the path.
append_mode == "append"

\* df.write.mode("overwrite")
write_mode == "overwrite"

\* writer.parquet(output_path): what is at the path afterwards.
writer_parquet(before, mode, files) ==
    IF mode = "overwrite" THEN files
    ELSE [dir \in DOMAIN before \cup DOMAIN files |->
            (IF dir \in DOMAIN before THEN before[dir] ELSE <<>>) \o
            (IF dir \in DOMAIN files THEN files[dir] ELSE <<>>)]

\* export_to_parquet(df, output_path, partition_by)
export_to_parquet(d, before, partition_by) ==
    writer_parquet(before, write_mode, partition_files(d, partition_by))

DirBefore(a, b) ==
    \/ ~a.default /\ b.default
    \/ a.default = b.default /\ a.value < b.value

RECURSIVE read_dirs(_, _, _)
read_dirs(files, dirs, partition_col) ==
    IF dirs = {} THEN <<>>
    ELSE LET dir == CHOOSE x \in dirs : \A y \in dirs \ {x} : DirBefore(x, y)
         IN  [i \in 1..Len(files[dir]) |->
                 withColumn(files[dir][i], partition_col, PartitionKey(dir))]
             \o read_dirs(files, dirs \ {dir}, partition_col)

\* spark.read.parquet(output_path): the rows of every subdirectory, each
\* with its partition key as a column.
read_parquet(files) == read_dirs(files, DOMAIN files, "badge_year")

\* groupBy(column).count()
groupBy_count(d, column) ==
    [k \in {d[i][column] : i \in 1..Len(d)} |->
        count(SelectSeq(d, LAMBDA r : r[column] = k))]

EmptyDir == [dir \in {} |-> <<>>]

\* Output of an earlier export of other data: one row in badge_year=2007.
StaleDir ==
    partition_files(clean_badges_data(
        <<RawRow(Long(1), Long(-1), NiceAnswer, Timestamp(2007, 1, 2), Long(1), Bool(FALSE))>>),
        "badge_year")

PriorContents == {EmptyDir, StaleDir}

(* ---------------------------- badges_analysis.py ----------------------- *)

\* a / b in Python: a quotient, or ZeroDivisionError when b is 0.
ZeroDivisionError == [num |-> 0, den |-> 0]

Quotient(a, b) == IF b = 0 THEN ZeroDivisionError ELSE [num |-> a, den |-> b]

Times(q, k) == IF q = ZeroDivisionError THEN q ELSE [num |-> q.num * k, den |-> q.den]

\* The percentage without the guard on total_rows.
null_percentage_unguarded(null_count, total_rows) ==
    Times(Quotient(null_count, total_rows), 100)

\* percentage = (null_count / total_rows) * 100 if total_rows > 0 else 0
null_percentage(null_count, total_rows) ==
    IF total_rows > 0 THEN Times(Quotient(null_count, total_rows), 100)
    ELSE [num |-> 0, den |-> 1]

\* df.filter(col(column).isNull()).count()
null_count_of(d, column) ==
    count(SelectSeq(d, LAMBDA r : r[column] = Null))

\* df.filter(~col("_Class").isin(1, 2, 3)).count()
invalid_class_count_of(d) ==
    count(filter(d, [i \in 1..Len(d) |->
                        Not3(isin(d[i]["_Class"], {Long(1), Long(2), Long(3)}))]))

\* What profile_badges computes for the null analysis, the class check and
\* the summary.
profile_badges(d) ==
    [total_rows |-> count(d),
     null_counts |-> [c \in RawColumns |-> null_count_of(d, c)],
     percentage |-> [c \in RawColumns |-> null_percentage(null_count_of(d, c), count(d))],
     invalid_class_count |-> invalid_class_count_of(d),
     negative_users |-> count(SelectSeq(d, LAMBDA r :
                            r["_UserId"] # Null /\ r["_UserId"].long < 0))]

NoReport ==
    [total_rows |-> 0,
     null_counts |-> [c \in RawColumns |-> 0],
     percentage |-> [c \in RawColumns |-> [num |-> 0, den |-> 1]],
     invalid_class_count |-> 0,
     negative_users |-> 0]

(* ---------------------------- the two mains ---------------------------- *)

NoStats == [total |-> 0, partitions |-> [dir \in {} |-> 0]]

\* Row count and per-partition row counts at the output path.
StatsOf(files) ==
    [total |-> count(read_parquet(files)),
     partitions |-> [dir \in DOMAIN files |-> Len(files[dir])]]

Init ==
    /\ script \in {"cleaning", "analysis"}
    /\ pc = "start"
    /\ session = "none"
    /\ acquired = 0
    /\ error = "none"
    /\ input \in Inputs
    /\ fs \in IF script = "cleaning" THEN PriorContents ELSE {EmptyDir}
    /\ df = <<>>
    /\ df_cleaned = <<>>
    /\ initial_count = 0
    /\ final_count = 0
    /\ name_anomalies = 0
    /\ parquet_count = 0
    /\ outcome = "none"
    /\ report = NoReport
    /\ run = 1
    /\ first_run = NoStats

\* spark = create_spark_session()
CreateSparkSession ==
    /\ pc = "start"
    /\ pc' = "load"
    /\ session' = "held"
    /\ acquired' = acquired + 1
    /\ UNCHANGED <<script, error, input, fs, df, df_cleaned, initial_count, final_count,
                   name_anomalies, parquet_count, outcome, report, run, first_run>>

\* df = load_badges_xml(spark, path): raises when the file is absent, and
\* nothing in main catches it.
LoadBadgesXml ==
    /\ pc = "load"
    /\ IF input.exists
       THEN /\ df' = input.rows
            /\ pc' = IF script = "cleaning" THEN "clean" ELSE "profile"
            /\ error' = error
       ELSE /\ df' = df
            /\ pc' = "aborted"
            /\ error' = "SourceNotFound"
    /\ UNCHANGED <<script, session, acquired, input, fs, df_cleaned, initial_count,
                   final_count, name_anomalies, parquet_count, outcome, report, run,
                   first_run>>

\* df_cleaned = clean_badges_data(df)
CleanBadgesData ==
    /\ pc = "clean"
    /\ initial_count' = count(df)
    /\ name_anomalies' = validate_string_anomalies(df, "_Name")
    /\ df_cleaned' = clean_badges_data(df)
    /\ final_count' = count(df_cleaned')
    /\ pc' = "export"
    /\ UNCHANGED <<script, session, acquired, error, input, fs, df, parquet_count,
                   outcome, report, run, first_run>>

\* export_to_parquet(df_cleaned, output_path, partition_by="badge_year")
ExportToParquet ==
    /\ pc = "export"
    /\ fs' = export_to_parquet(df_cleaned, fs, "badge_year")
    /\ pc' = "validate"
    /\ UNCHANGED <<script, session, acquired, error, input, df, df_cleaned,
                   initial_count, final_count, name_anomalies, parquet_count, outcome,
                   report, run, first_run>>

\* parquet_count = validate_parquet_output(spark, output_path). With no data
\* file at the path the reader has no schema to infer: it raises, or yields
\* the empty table.
ValidateParquetOutput ==
    /\ pc = "validate"
    /\ \/ /\ parquet_count' = count(read_parquet(fs))
          /\ pc' = "summary"
          /\ error' = error
       \/ /\ DOMAIN fs = {}
          /\ parquet_count' = parquet_count
          /\ pc' = "aborted"
          /\ error' = "AnalysisException"
    /\ UNCHANGED <<script, session, acquired, input, fs, df, df_cleaned, initial_count,
                   final_count, name_anomalies, outcome, report, run, first_run>>

\* print_section("CLEANING COMPLETE") and the final summary
CleaningSummary ==
    /\ pc = "summary"
    /\ outcome' = "CLEANING COMPLETE"
    /\ pc' = "stop"
    /\ UNCHANGED <<script, session, acquired, error, input, fs, df, df_cleaned,
                   initial_count, final_count, name_anomalies, parquet_count, report,
                   run, first_run>>

\* profile_badges(df), then the PROFILING COMPLETE banner
ProfileBadges ==
    /\ pc = "profile"
    /\ IF \E c \in RawColumns : profile_badges(df).percentage[c] = ZeroDivisionError
       THEN /\ pc' = "aborted"
            /\ error' = "ZeroDivisionError"
            /\ UNCHANGED <<report, outcome>>
       ELSE /\ report' = profile_badges(df)
            /\ outcome' = "PROFILING COMPLETE"
            /\ pc' = "stop"
            /\ error' = error
    /\ UNCHANGED <<script, session, acquired, input, fs, df, df_cleaned, initial_count,
                   final_count, name_anomalies, parquet_count, run, first_run>>

\* spark.stop()
SparkStop ==
    /\ pc = "stop"
    /\ session' = "stopped"
    /\ pc' = "done"
    /\ UNCHANGED <<script, acquired, error, input, fs, df, df_cleaned, initial_count,
                   final_count, name_anomalies, parquet_count, outcome, report, run,
                   first_run>>

\* The cleaning script is started again, as a new process, on the same
\* input and output path.
RunAgain ==
    /\ pc = "done"
    /\ script = "cleaning"
    /\ run < MaxRuns
    /\ run' = run + 1
    /\ first_run' = IF run = 1 THEN StatsOf(fs) ELSE first_run
    /\ pc' = "start"
    /\ session' = "none"
    /\ acquired' = 0
    /\ df' = <<>>
    /\ df_cleaned' = <<>>
    /\ initial_count' = 0
    /\ final_count' = 0
    /\ name_anomalies' = 0
    /\ parquet_count' = 0
    /\ outcome' = "none"
    /\ UNCHANGED <<script, error, input, fs, report>>

Next ==
    \/ CreateSparkSession
    \/ LoadBadgesXml
    \/ CleanBadgesData
    \/ ExportToParquet
    \/ ValidateParquetOutput
    \/ CleaningSummary
    \/ ProfileBadges
    \/ SparkStop
    \/ RunAgain

Spec == Init /\ [][Next]_vars

\* Another process removes a partition subdirectory at the output path
\* between the export and the read-back.
ExternalDelete ==
    /\ pc = "validate"
    /\ \E dir \in DOMAIN fs : fs' = [x \in DOMAIN fs \ {dir} |-> fs[x]]
    /\ UNCHANGED <<script, pc, session, acquired, error, input, df, df_cleaned,
                   initial_count, final_count, name_anomalies, parquet_count, outcome,
                   report, run, first_run>>

NextShared == Next \/ ExternalDelete

SpecShared == Init /\ [][NextShared]_vars

(* ---------------------------- properties ------------------------------- *)

\* The run has a cleaned table: clean_badges_data has returned.
Cleaned ==
    /\ script = "cleaning"
    /\ \/ pc \in {"export", "validate", "summary", "stop", "done"}
       \/ pc = "aborted" /\ error = "AnalysisException"

\* The run has written the output path: export_to_parquet has returned.
Exported ==
    /\ script = "cleaning"
    /\ \/ pc \in {"validate", "summary", "stop", "done"}
       \/ pc = "aborted" /\ error = "AnalysisException"

\* The run has read the output path back: validate_parquet_output has returned.
Validated == script = "cleaning" /\ pc \in {"summary", "stop", "done"}

\* profile_badges has returned.
Profiled == script = "analysis" /\ pc \in {"stop", "done"}

RowsOf(t) == {t[i] : i \in 1..Len(t)}

\* C1: a run acquires the session exactly once, and no run that acquired it
\* ends, normally or by an aborting failure, with the session still held.
C1_SessionReleasedOnEveryEnd ==
    pc \in {"done", "aborted"} => acquired = 1 /\ session = "stopped"

\* C2: clean_badges_data returns exactly as many rows as it was given:
\* final_count = initial_count = the input's row count, whatever the rows hold.
C2_CleanKeepsRowCount ==
    Cleaned =>
        /\ count(df_cleaned) = count(df)
        /\ initial_count = count(input.rows)
        /\ final_count = initial_count

\* C2 witness: a two-row table with a sentinel name, a class outside
\* {1,2,3} and a date whose cast failed has been cleaned.
C2_Witness ==
    /\ Cleaned
    /\ final_count = 2
    /\ name_anomalies >= 1
    /\ \E r \in RowsOf(df) : r["_Class"] = Long(99)
    /\ \E i \in 1..Len(df) : df[i]["_Date"] = Str(<<"x">>) /\ df_cleaned[i]["date"] = Null

C4_OverwriteReplaces ==
    Exported =>
        /\ StatsOf(fs).total = count(df_cleaned)
        /\ DOMAIN fs = {PartitionDir(k) : k \in DOMAIN groupBy_count(df_cleaned, "badge_year")}
        /\ \A k \in DOMAIN groupBy_count(df_cleaned, "badge_year") :
               StatsOf(fs).partitions[PartitionDir(k)] =
                   groupBy_count(df_cleaned, "badge_year")[k]
        /\ run > 1 => StatsOf(fs) = first_run

\* C4 witness: the second run has exported over the first run's two rows.
C4_Witness ==
    /\ Exported
    /\ run = 2
    /\ pc = "validate"
    /\ first_run.total = 2
    /\ count(df_cleaned) = 2

\* C5: the row count validate_parquet_output returns equals the row count of
\* the cleaned table that was exported.
C5_RoundTripRowCount ==
    Validated => parquet_count = count(df_cleaned) /\ parquet_count = final_count

\* C5 witness: a two-row table with a null-date row has been read back.
C5_Witness ==
    /\ Validated
    /\ parquet_count = 2
    /\ \E r \in RowsOf(df_cleaned) : r["date"] = Null

\* C6 as stated: every cleaned row's badge_class is null or in {1,2,3}.
C6_ClassInDomainAfterCleaning ==
    Cleaned =>
        \A r \in RowsOf(df_cleaned) : r["badge_class"] \in {Null, Long(1), Long(2), Long(3)}

\* C6 amended: every cleaned row's badge_class is null when the raw Class is
\* null and otherwise the raw Class value itself, inside {1,2,3} or not.
C6_ClassRetained ==
    Cleaned =>
        /\ Len(df_cleaned) = Len(df)
        /\ \A i \in 1..Len(df) :
               /\ df[i]["_Class"] = Null <=> df_cleaned[i]["badge_class"] = Null
               /\ df[i]["_Class"] # Null =>
                      df_cleaned[i]["badge_class"].long = df[i]["_Class"].long

\* C6 witness: a cleaned row holds badge_class 99.
C6_Witness ==
    /\ Cleaned
    /\ \E r \in RowsOf(df_cleaned) : r["badge_class"] = Long(99)

\* The badge_year subdirectories of the distinct years of the non-null dates.
YearDirs(t) ==
    {[default |-> FALSE, value |-> r["date"].year] : r \in {x \in RowsOf(t) : x["date"] # Null}}

\* C7 as stated: the partition subdirectories at the output path are exactly
\* those of the distinct years of the non-null dates.
C7_PartitionsAreYears == Exported => DOMAIN fs = YearDirs(df_cleaned)

\* C7 amended: leaving out the default partition subdirectory, which exists
\* exactly when some row has a null date, the partition subdirectories are
\* those of the distinct years of the non-null dates.
C7_PartitionsAreYearsAndDefault ==
    Exported =>
        /\ DOMAIN fs \ {HiveDefaultPartition} = YearDirs(df_cleaned)
        /\ HiveDefaultPartition \in DOMAIN fs <=>
               \E r \in RowsOf(df_cleaned) : r["date"] = Null

\* C7 witness: a table with a dated row and a null-date row has been exported.
C7_Witness ==
    /\ Exported
    /\ pc = "validate"
    /\ HiveDefaultPartition \in DOMAIN fs
    /\ Cardinality(DOMAIN fs) = 2

\* C8: invalid_class_count is the number of rows whose Class is not 1, 2 or
\* 3, rows with no Class value included.
C8_InvalidClassCount ==
    Profiled =>
        report.invalid_class_count =
            Cardinality({i \in 1..Len(df) : df[i]["_Class"] \notin {Long(1), Long(2), Long(3)}})

NiceAnswerClean == Str(<<"n", "i", "c", "e", " ", "a", "n", "s", "w", "e", "r">>)

\* C9: every cleaned name is lower(trim(raw Name)) of its raw row and is its
\* own trimmed form, with no space at either end; "  Nice Answer  " becomes
\* "nice answer".
C9_NameNormalized ==
    Cleaned =>
        /\ Len(df_cleaned) = Len(df)
        /\ \A i \in 1..Len(df) :
               LET raw == df[i]["_Name"]
                   name == df_cleaned[i]["name"]
               IN  /\ name = lower(trim(raw))
                   /\ trim(name) = name
                   /\ raw = Null <=> name = Null
                   /\ name # Null /\ name.str # <<>> =>
                          Head(name.str) # " " /\ name.str[Len(name.str)] # " "
                   /\ raw = NiceAnswer => name = NiceAnswerClean

\* C9 witness: a row named "  Nice Answer  " has been cleaned.
C9_Witness ==
    /\ Cleaned
    /\ \E i \in 1..Len(df) :
           df[i]["_Name"] = NiceAnswer /\ df_cleaned[i]["name"] = NiceAnswerClean

\* C10: each column's null percentage is null_count/total_rows*100, lies in
\* [0,100], is 0 when null_count is 0, and is 0 with no division error when
\* the table has no rows.
C10_NullPercentage ==
    /\ error # "ZeroDivisionError"
    /\ Profiled =>
           \A c \in RawColumns :
               LET q == report.percentage[c]
                   n == report.null_counts[c]
                   t == report.total_rows
               IN  /\ t = count(df)
                   /\ n = Cardinality({i \in 1..Len(df) : df[i][c] = Null})
                   /\ q.den > 0
                   /\ t > 0 => q.num * t = n * 100 * q.den
                   /\ 0 <= q.num /\ q.num <= 100 * q.den
                   /\ n = 0 => q.num = 0
                   /\ t = 0 => q.num = 0

\* C10 witness: a table with no rows has been profiled.
C10_Witness ==
    /\ Profiled
    /\ report.total_rows = 0
    /\ \A c \in RawColumns : report.percentage[c].num = 0

====
